---- MODULE Spec2Model ----
(***************************************************************************)
(* Model of controlSerial.py: the joystick (JoystickWidget), the ramp      *)
(* timer, the packet encoder with its deduplication (send_data), the       *)
(* serial and UDP transports of SerialController, and the two inbound      *)
(* reader threads (SerialReader, UDPListener).                             *)
(*                                                                         *)
(* One action per Qt event handler or thread step.  A handler runs to      *)
(* completion on the GUI thread, except start_udp_listener, which blocks   *)
(* in Thread.join() until the listener thread has returned.                *)
(***************************************************************************)
EXTENDS Integers, Sequences, FiniteSets, TLC

(***************************************************************************)
(* Program constants                                                       *)
(***************************************************************************)
Radius == 80
MaxSpeed == 255
RampStep == 15
DefaultLimitTenths == 10
SaveSettingsParams == 5
SaveSettingsArgs == 4

(***************************************************************************)
(* Bounds of the model                                                     *)
(***************************************************************************)
\* ticks counted by the ramp-only specification SpecRamp
MaxTicks == 36

\* Pointer offsets (dx, dy) from the disc's centre fed to the joystick.  For
\* each of them the double-precision evaluation of update_knob equals the
\* exact truncated quotient computed by KnobSpeed.
PointerOffsets == { <<0, 0>>, <<5, 0>> }

\* Pointer offsets of the joystick-only specification SpecJoy: the centre,
\* the rim, a corner outside the disc and a point inside it.
JoyOffsets == { <<0, 0>>, <<80, -80>>, <<0, 80>>, <<0, -40>> }

\* Texts of the UDP TX and RX port fields: the default, which int() parses,
\* and one it does not.
PortInputTexts == { "5005", "x" }
PortOutputTexts == { "5006", "x" }

\* Pointer offsets of the release specification SpecRelease: the centre and
\* full speed backwards.
ReleaseOffsets == { << 0, 0 >>, << 0, 80 >> }

\* Start and target speeds of the ramp-only specification.
RampValues == { -255, -100, -16, -15, -1, 0, 7, 15, 29, 30, 255 }

(***************************************************************************)
(* State                                                                   *)
(***************************************************************************)
VARIABLES
    alive,            \* the process runs (FALSE once Qt has aborted it)
    mainPc,           \* GUI thread: "idle" between handlers, "join" inside Thread.join()
    use_udp,          \* SerialController.use_udp
    serial_port,      \* SerialController.serial_port: "None" or "open"
    reader_thread,    \* SerialController.reader_thread: NoReader or a SerialReader
    udp_listener,     \* SerialController.udp_listener: NoListener or a UDPListener
    port_input,       \* text of the UDP TX port field
    port_output,      \* text of the UDP RX port field
    current_data,     \* SerialController.current_data
    last_packet,      \* SerialController.last_packet, Unset before the first send_data
    joystick,         \* JoystickWidget: active, knob_pos, target_speed*, current_speed*,
                      \* and pos, the position of the pointer while it is held
    config_file,      \* config.json: "absent" or "written"
    terminal_output,  \* the line the latest step appended to the log, or "none"
    sendOutcome,      \* what send_data did in the latest step
    uncaught,         \* the exception that escaped the latest handler, or "none"
    callback,         \* the reader whose receive callback the latest step invoked
    openOutcome,      \* what serial.Serial() did in the latest step
    lastTx,           \* the last packet written to a transport, or Unset
    pressAwait,       \* speeds at a brake press not yet followed by a transmission
    ticks,            \* ramp ticks counted by SpecRamp
    rampStart         \* the current speeds SpecRamp started from

vars == << alive, mainPc, use_udp, serial_port, reader_thread, udp_listener,
           port_input, port_output, current_data, last_packet, joystick,
           config_file, terminal_output, sendOutcome, uncaught, callback,
           openOutcome, lastTx, pressAwait, ticks, rampStart >>

(***************************************************************************)
(* Pure helpers                                                            *)
(***************************************************************************)
Abs(x) == IF x < 0 THEN -x ELSE x

\* Python's int() of a quotient: truncation toward zero.
TruncDiv(a, b) == IF a >= 0 THEN a \div b ELSE -((-a) \div b)

Min2(a, b) == IF a < b THEN a ELSE b
Max2(a, b) == IF a > b THEN a ELSE b

\* max(-255, min(255, v))
ClampOmitted(v) == v
Clamp(v) == Max2(-MaxSpeed, Min2(MaxSpeed, v))

\* int(text) succeeds
IsIntText(t) == t \in { "5005", "5006" }

\* int(s / dist * 255) for dist = sqrt(d2) > radius: the knob scaled back onto
\* the disc's rim, computed without square roots.  The quotient 255|s|/dist
\* lies between 255|s|*radius/d2 and 255|s|/radius, as radius < dist < d2/radius.
TruncScaled(s, d2) ==
    LET a == MaxSpeed * Abs(s)
        k == CHOOSE n \in ((a * Radius) \div d2)..(a \div Radius) :
                 n * n * d2 <= a * a /\ (n + 1) * (n + 1) * d2 > a * a
    IN IF s >= 0 THEN k ELSE -k

\* speedL / speedR of update_knob before the clamp; s is ny - nx or ny + nx
\* in units of 1/radius.
KnobSpeed(s, d2) ==
    IF d2 > Radius * Radius THEN TruncScaled(s, d2) ELSE TruncDiv(s * MaxSpeed, Radius)

\* One coordinate of knob_pos relative to the centre, in whole pixels (the
\* fraction cut): d itself inside the disc, d * radius / dist outside
KnobCoord(d, d2) ==
    IF d2 > Radius * Radius
    THEN LET k == CHOOSE n \in 0..Radius :
                      /\ n * n * d2 <= d * d * Radius * Radius
                      /\ (n + 1) * (n + 1) * d2 > d * d * Radius * Radius
         IN IF d >= 0 THEN k ELSE -k
    ELSE d

\* update_knob: knob_pos for the pointer offset (dx, dy), scaled back onto
\* the disc when the pointer is outside it
KnobPosUnscaled(dx, dy) == << dx, dy >>
KnobPos(dx, dy) ==
    << KnobCoord(dx, dx * dx + dy * dy), KnobCoord(dy, dx * dx + dy * dy) >>

\* update_knob: the clamped targets for the pointer offset (dx, dy)
KnobTargets(dx, dy) ==
    LET d2 == dx * dx + dy * dy
    IN << Clamp(KnobSpeed((-dy) - dx, d2)), Clamp(KnobSpeed((-dy) + dx, d2)) >>

\* approach(current, target, step = 15) of update_speeds
ApproachOvershoot(current, target) ==
    IF current < target THEN current + RampStep
    ELSE IF current > target THEN current - RampStep
    ELSE current
Approach(current, target) ==
    IF current < target THEN Min2(current + RampStep, target)
    ELSE IF current > target THEN Max2(current - RampStep, target)
    ELSE current

\* The packet of send_data, "TX:{valL},{valR},{b}\n", as the triple of its fields.
EncodeBrakeZero(data) ==
    << TruncDiv(data.speedL * data.limit, 10), TruncDiv(data.speedR * data.limit, 10), 0 >>
Encode(data) ==
    << TruncDiv(data.speedL * data.limit, 10),
       TruncDiv(data.speedR * data.limit, 10),
       IF data.brake THEN 1 ELSE 0 >>

\* Python's binding of a call's positional arguments to the parameters
\* (none has a default): the call raises TypeError unless the counts agree.
CallBinds(nargs, nparams) == nargs = nparams

\* No packet: last_packet before the first send_data (the attribute does not
\* exist yet), and the wire before the first transmission.
Unset == << >>

\* self.udp_listener = None, self.reader_thread = None
NoListener == [running |-> FALSE, sock |-> "none", pc |-> "none"]
NoReader == [running |-> FALSE, port_open |-> FALSE, pc |-> "none"]

\* UDPListener.__init__ followed by start(): the socket exists, run() has
\* not reached bind yet.
NewListener == [running |-> TRUE, sock |-> "open", pc |-> "bind"]

\* SerialReader.__init__ on an open port followed by start()
NewReader == [running |-> TRUE, port_open |-> TRUE, pc |-> "test"]

\* hasattr(self, "last_packet") and self.last_packet == packet
IsDuplicateNever(last, packet) == FALSE
IsDuplicateOfTransmitted(last, packet) == lastTx # Unset /\ lastTx = packet
IsDuplicate(last, packet) == last # Unset /\ last = packet

(***************************************************************************)
(* Initial state                                                           *)
(***************************************************************************)
\* SerialController.__init__
InitController ==
    /\ alive = TRUE
    /\ mainPc = "idle"
    /\ use_udp = FALSE
    /\ udp_listener = NoListener
    /\ port_input = "5005"
    /\ port_output = "5006"
    /\ current_data = [speedL |-> 0, speedR |-> 0, brake |-> FALSE, limit |-> DefaultLimitTenths]
    /\ last_packet = Unset
    /\ terminal_output = "none"
    /\ sendOutcome = "none"
    /\ uncaught = "none"
    /\ callback = "none"
    /\ openOutcome = "none"
    /\ lastTx = Unset
    /\ pressAwait = Unset
    /\ ticks = 0

\* JoystickWidget.__init__
InitJoystick ==
    /\ joystick = [active |-> FALSE, pos |-> << 0, 0 >>, knob_pos |-> << 0, 0 >>,
                   target_speedL |-> 0, target_speedR |-> 0,
                   current_speedL |-> 0, current_speedR |-> 0]
    /\ rampStart = << 0, 0 >>

\* The program after construction: no port, no reader, no configuration written
Init ==
    /\ InitController
    /\ InitJoystick
    /\ serial_port = "None"
    /\ reader_thread = NoReader
    /\ config_file = "absent"

\* A GUI-thread handler can start: the process runs and the thread is not
\* blocked inside join().
GuiReady == alive /\ mainPc = "idle"

\* A step that calls neither send_data nor serial.Serial() and raises nothing.
NoSend ==
    /\ sendOutcome' = "none"
    /\ uncaught' = "none"
    /\ openOutcome' = "none"
    /\ UNCHANGED << alive, last_packet, lastTx, pressAwait >>

\* A step of the GUI thread that is no receive callback
NoCallback == callback' = "none"

(***************************************************************************)
(* send_data                                                               *)
(***************************************************************************)
\* What send_data does with the packet of `data`; io is the outcome of the
\* write / sendto system call ("ok" or "raise").
\*   "dup"     the packet equals last_packet: return
\*   "raised"  UDP mode, int(self.port_input.text()) raises ValueError, which
\*             no except clause catches
\*   "sent"    written to the serial handle or sent as a datagram
\*   "failed"  write / sendto raised, caught and logged
\*   "closed"  COM mode without an open port: nothing is done
SendResult(data, io) ==
    IF IsDuplicate(last_packet, Encode(data)) THEN "dup"
    ELSE IF use_udp
         THEN IF ~IsIntText(port_input) THEN "raised"
              ELSE IF io = "ok" THEN "sent" ELSE "failed"
         ELSE IF serial_port = "open"
              THEN IF io = "ok" THEN "sent" ELSE "failed"
              ELSE "closed"

\* The line send_data appends to terminal_output
SendLog(r) ==
    CASE r = "sent" -> "sent"
      [] r = "failed" -> IF use_udp THEN "err_udp" ELSE "err_com"
      [] OTHER -> "none"

\* self.last_packet = packet comes before the transport is tried
LastPacketAfterOnSuccess(r, packet) == IF r = "sent" THEN packet ELSE last_packet
LastPacketAfter(r, packet) == IF r = "dup" THEN last_packet ELSE packet

\* send_data on `data` (the value the handler has just stored in
\* current_data).  An exception that escapes a slot makes PyQt6 call
\* qFatal(), which aborts the process, unless an exception hook is installed,
\* in which case the handler is abandoned and the event loop goes on: alive
\* is then either value.  `press` is the pair of speeds when
\* the caller is press_brake turning the brake on at a nonzero speed, Unset
\* otherwise.
SendData(data, io, press) ==
    LET r == SendResult(data, io)
        packet == Encode(data)
    IN /\ sendOutcome' = r
       /\ last_packet' = LastPacketAfter(r, packet)
       /\ lastTx' = IF r = "sent" THEN packet ELSE lastTx
       /\ terminal_output' = SendLog(r)
       /\ uncaught' = IF r = "raised" THEN "ValueError" ELSE "none"
       /\ NoCallback
       /\ openOutcome' = "none"
       /\ IF r = "raised" THEN alive' \in BOOLEAN ELSE alive' = alive
       /\ pressAwait' = IF r = "sent" THEN Unset
                        ELSE IF press # Unset THEN press ELSE pressAwait

(***************************************************************************)
(* JoystickWidget                                                          *)
(***************************************************************************)
\* mousePressEvent: active = True, update_knob(pos)
MousePress(dx, dy) ==
    LET target == KnobTargets(dx, dy) IN
    /\ GuiReady
    /\ joystick' = [joystick EXCEPT !.active = TRUE,
                                    !.pos = << dx, dy >>,
                                    !.knob_pos = KnobPos(dx, dy),
                                    !.target_speedL = target[1],
                                    !.target_speedR = target[2]]
    /\ terminal_output' = "none"
    /\ NoSend
    /\ NoCallback
    /\ UNCHANGED << mainPc, use_udp, serial_port, reader_thread, udp_listener,
                    port_input, port_output, current_data, config_file, ticks, rampStart >>

\* mouseMoveEvent: update_knob(pos) if active
MouseMove(dx, dy) ==
    LET target == KnobTargets(dx, dy) IN
    /\ GuiReady
    /\ joystick.active
    /\ joystick' = [joystick EXCEPT !.pos = << dx, dy >>,
                                    !.knob_pos = KnobPos(dx, dy),
                                    !.target_speedL = target[1],
                                    !.target_speedR = target[2]]
    /\ terminal_output' = "none"
    /\ NoSend
    /\ NoCallback
    /\ UNCHANGED << mainPc, use_udp, serial_port, reader_thread, udp_listener,
                    port_input, port_output, current_data, config_file, ticks, rampStart >>

\* mouseReleaseEvent: active = False, knob_pos = center, both targets 0
MouseReleaseBody ==
    /\ GuiReady
    /\ joystick' = [joystick EXCEPT !.active = FALSE,
                                    !.pos = << 0, 0 >>,
                                    !.knob_pos = << 0, 0 >>,
                                    !.target_speedL = 0,
                                    !.target_speedR = 0]
    /\ terminal_output' = "none"
    /\ NoSend
    /\ NoCallback
    /\ UNCHANGED << mainPc, use_udp, serial_port, reader_thread, udp_listener,
                    port_input, port_output, current_data, config_file, rampStart >>

MouseRelease == MouseReleaseBody /\ UNCHANGED ticks

\* The 30 ms timer: update_speeds, whose moved signal runs joystick_move,
\* which stores the speeds in current_data and calls send_data.
TickBody(io) ==
    LET l == Approach(joystick.current_speedL, joystick.target_speedL)
        r == Approach(joystick.current_speedR, joystick.target_speedR)
        data == [current_data EXCEPT !.speedL = l, !.speedR = r]
    IN /\ GuiReady
       /\ joystick' = [joystick EXCEPT !.current_speedL = l, !.current_speedR = r]
       /\ current_data' = data
       /\ SendData(data, io, Unset)
       /\ UNCHANGED << mainPc, use_udp, serial_port, reader_thread, udp_listener,
                       port_input, port_output, config_file, rampStart >>

Tick(io) == TickBody(io) /\ UNCHANGED ticks

(***************************************************************************)
(* Brake                                                                   *)
(***************************************************************************)
\* press_brake (the button's pressed signal): brake = True, send_data
PressBrake(io) ==
    LET data == [current_data EXCEPT !.brake = TRUE]
        press == IF ~current_data.brake /\ (data.speedL # 0 \/ data.speedR # 0)
                 THEN << data.speedL, data.speedR >> ELSE Unset
    IN /\ GuiReady
       /\ current_data' = data
       /\ SendData(data, io, press)
       /\ UNCHANGED << mainPc, use_udp, serial_port, reader_thread, udp_listener,
                       port_input, port_output, joystick, config_file, ticks, rampStart >>

\* keyPressEvent: Space while the brake is off calls press_brake
KeyPressSpace(io) ==
    /\ ~current_data.brake
    /\ PressBrake(io)

\* release_brake (the button's released signal): brake = False, send_data
ReleaseBrake(io) ==
    LET data == [current_data EXCEPT !.brake = FALSE]
    IN /\ GuiReady
       /\ current_data' = data
       /\ SendData(data, io, Unset)
       /\ UNCHANGED << mainPc, use_udp, serial_port, reader_thread, udp_listener,
                       port_input, port_output, joystick, config_file, ticks, rampStart >>

\* keyReleaseEvent: Space while the brake is on calls release_brake
KeyReleaseSpace(io) ==
    /\ current_data.brake
    /\ ReleaseBrake(io)

(***************************************************************************)
(* Serial transport                                                        *)
(***************************************************************************)
\* SerialReader.stop(): running = False
ReaderStopped(r) == IF r = NoReader THEN r ELSE [r EXCEPT !.running = FALSE]

\* serial_port.close() as the reader's own reference to the port sees it
ReaderPortClosed(r) == IF r = NoReader THEN r ELSE [r EXCEPT !.port_open = FALSE]

\* The except clause of connect_serial: the line it logs
ConnectFailureLogNone == "none"
ConnectFailureLog == "err_connect"

\* connect_serial, the later of the two definitions in the class (the one
\* Python keeps).  The button sits on the COM page of the stacked layout, so
\* it can be clicked in COM mode only.  `opened` is whether serial.Serial()
\* returns or raises SerialException.
ConnectSerial(opened) ==
    /\ GuiReady
    /\ ~use_udp
    /\ sendOutcome' = "none"
    /\ NoCallback
    /\ UNCHANGED << mainPc, use_udp, udp_listener, port_input, port_output,
                    current_data, last_packet, joystick, lastTx,
                    pressAwait, ticks, rampStart >>
    /\ IF serial_port = "open"
       THEN \* disconnect: reader_thread.stop(), serial_port.close()
            /\ reader_thread' = ReaderPortClosed(ReaderStopped(reader_thread))
            /\ serial_port' = "None"
            /\ terminal_output' = "disconnected"
            /\ uncaught' = "none"
            /\ openOutcome' = "none"
            /\ UNCHANGED << alive, config_file >>
       ELSE IF opened
            THEN /\ serial_port' = "open"
                 /\ openOutcome' = "opened"
                 /\ terminal_output' = "connected"
                 /\ IF CallBinds(SaveSettingsArgs, SaveSettingsParams)
                    THEN \* save_settings writes the file, the reader starts
                         /\ config_file' = "written"
                         /\ reader_thread' = NewReader
                         /\ uncaught' = "none"
                         /\ UNCHANGED alive
                    ELSE \* the call raises TypeError, which is no SerialException
                         /\ uncaught' = "TypeError"
                         /\ alive' \in BOOLEAN
                         /\ UNCHANGED << config_file, reader_thread >>
            ELSE /\ openOutcome' = "refused"
                 /\ terminal_output' = ConnectFailureLog
                 /\ serial_port' = "None"
                 /\ uncaught' = "none"
                 /\ UNCHANGED << alive, config_file, reader_thread >>

(***************************************************************************)
(* UDP transport                                                           *)
(***************************************************************************)
\* UDPListener.stop(): running = False, sock.close()
ListenerStopped(l) == [l EXCEPT !.running = FALSE, !.sock = "closed"]

\* The thread of the listener is inside run(): before bind, at the loop
\* test, blocked in recvfrom, inside the callback called from the loop, or
\* inside the callback called from the outer except clause
ListenerAlive(l) == l.pc \in { "bind", "test", "recv", "callback", "except" }

\* start_udp_listener after the old listener is gone: parse the RX port,
\* create and start a listener
StartTail ==
    IF IsIntText(port_output)
    THEN /\ udp_listener' = NewListener
         /\ terminal_output' = "udp_listening"
    ELSE /\ udp_listener' = NoListener
         /\ terminal_output' = "err_udp_rx_port"

\* start_udp_listener without the wait for the old listener
StartUdpListenerNoJoin ==
    /\ StartTail
    /\ UNCHANGED mainPc

\* start_udp_listener from its first line: stop() the old listener and
\* join() it.  join() returns at once when run() has returned already;
\* otherwise the GUI thread waits in it.
StartUdpListenerBody ==
    IF udp_listener # NoListener /\ ListenerAlive(udp_listener)
    THEN /\ udp_listener' = ListenerStopped(udp_listener)
         /\ mainPc' = "join"
         /\ terminal_output' = "none"
    ELSE /\ StartTail
         /\ UNCHANGED mainPc

\* The restart button, on the UDP page of the stacked layout
StartUdpListener ==
    /\ GuiReady
    /\ use_udp
    /\ StartUdpListenerBody
    /\ NoSend
    /\ NoCallback
    /\ UNCHANGED << use_udp, serial_port, reader_thread, port_input, port_output,
                    current_data, joystick, config_file, ticks, rampStart >>

\* join() returns once run() has returned; start_udp_listener goes on
JoinReturn ==
    /\ alive
    /\ mainPc = "join"
    /\ udp_listener.pc = "done"
    /\ StartTail
    /\ mainPc' = "idle"
    /\ NoSend
    /\ NoCallback
    /\ UNCHANGED << use_udp, serial_port, reader_thread, port_input, port_output,
                    current_data, joystick, config_file, ticks, rampStart >>

\* toggle_mode, the combo box's currentTextChanged: sets use_udp and, for
\* UDP, calls start_udp_listener.  Nothing is stopped or closed here.
ToggleMode(mode) ==
    /\ GuiReady
    /\ (mode = "UDP") # use_udp
    /\ use_udp' = (mode = "UDP")
    /\ IF mode = "UDP"
       THEN StartUdpListenerBody
       ELSE /\ terminal_output' = "none"
            /\ UNCHANGED << udp_listener, mainPc >>
    /\ NoSend
    /\ NoCallback
    /\ UNCHANGED << serial_port, reader_thread, port_input, port_output,
                    current_data, joystick, config_file, ticks, rampStart >>

\* The user edits the UDP TX port field (UDP page)
EditPortInput(t) ==
    /\ GuiReady
    /\ use_udp
    /\ t # port_input
    /\ port_input' = t
    /\ terminal_output' = "none"
    /\ NoSend
    /\ NoCallback
    /\ UNCHANGED << mainPc, use_udp, serial_port, reader_thread, udp_listener,
                    port_output, current_data, joystick, config_file, ticks, rampStart >>

\* The user edits the UDP RX port field (UDP page)
EditPortOutput(t) ==
    /\ GuiReady
    /\ use_udp
    /\ t # port_output
    /\ port_output' = t
    /\ terminal_output' = "none"
    /\ NoSend
    /\ NoCallback
    /\ UNCHANGED << mainPc, use_udp, serial_port, reader_thread, udp_listener,
                    port_input, current_data, joystick, config_file, ticks, rampStart >>

\* filter_incoming: a line is appended to the log only if it starts with "RX:"
FilterIncoming(kind) == IF kind = "rx" THEN "rx" ELSE "none"

\* UDPListener.run up to the loop: bind.  It raises when the socket was
\* closed by stop() or the port cannot be bound (`bound` FALSE); the outer
\* except then passes "UDP Error: ..." to the callback, after which run()
\* returns.
ListenerBind(bound) ==
    /\ alive
    /\ udp_listener.pc = "bind"
    /\ IF udp_listener.sock = "open" /\ bound
       THEN /\ udp_listener' = [udp_listener EXCEPT !.pc = "test"]
            /\ terminal_output' = "none"
            /\ callback' = "none"
       ELSE /\ udp_listener' = [udp_listener EXCEPT !.pc = "except"]
            /\ terminal_output' = FilterIncoming("error")
            /\ callback' = "udp"
    /\ NoSend
    /\ UNCHANGED << mainPc, use_udp, serial_port, reader_thread, port_input, port_output,
                    current_data, joystick, config_file, ticks, rampStart >>

\* while self.running: leave the loop, or call recvfrom and block in it
ListenerTest ==
    /\ alive
    /\ udp_listener.pc = "test"
    /\ udp_listener' = [udp_listener EXCEPT !.pc = IF udp_listener.running THEN "recv" ELSE "done"]
    /\ terminal_output' = "none"
    /\ callback' = "none"
    /\ NoSend
    /\ UNCHANGED << mainPc, use_udp, serial_port, reader_thread, port_input, port_output,
                    current_data, joystick, config_file, ticks, rampStart >>

\* recvfrom returns a datagram: "rx" a line starting with RX:, "other" any
\* other text, "empty" no bytes, "undecodable" bytes that are not UTF-8 (the
\* UnicodeDecodeError reaches the outer except, which calls the callback with
\* the error text).  The callback runs in the listener's thread.  A call
\* that was blocked when stop() closed the socket still returns a datagram
\* where close() does not abort it.
ListenerDatagram(kind) ==
    /\ alive
    /\ udp_listener.pc = "recv"
    /\ udp_listener' = [udp_listener EXCEPT !.pc =
            CASE kind = "empty" -> "test"
              [] kind = "undecodable" -> "except"
              [] OTHER -> "callback"]
    /\ terminal_output' = FilterIncoming(kind)
    /\ callback' = IF kind = "empty" THEN "none" ELSE "udp"
    /\ NoSend
    /\ UNCHANGED << mainPc, use_udp, serial_port, reader_thread, port_input, port_output,
                    current_data, joystick, config_file, ticks, rampStart >>

\* recvfrom raises OSError (the socket was closed before or, where the
\* platform aborts a pending read, under the call; or the network reported
\* an error): break if stopped, else pass the error text to the callback
ListenerOSError ==
    /\ alive
    /\ udp_listener.pc = "recv"
    /\ udp_listener' = [udp_listener EXCEPT !.pc = IF udp_listener.running THEN "callback" ELSE "done"]
    /\ terminal_output' = IF udp_listener.running THEN FilterIncoming("error") ELSE "none"
    /\ callback' = IF udp_listener.running THEN "udp" ELSE "none"
    /\ NoSend
    /\ UNCHANGED << mainPc, use_udp, serial_port, reader_thread, port_input, port_output,
                    current_data, joystick, config_file, ticks, rampStart >>

\* The callback returns to run(): to the loop test, or, from the outer
\* except clause, to the end of run()
ListenerReturn ==
    /\ alive
    /\ udp_listener.pc \in { "callback", "except" }
    /\ udp_listener' = [udp_listener EXCEPT !.pc = IF udp_listener.pc = "callback" THEN "test" ELSE "done"]
    /\ terminal_output' = "none"
    /\ callback' = "none"
    /\ NoSend
    /\ UNCHANGED << mainPc, use_udp, serial_port, reader_thread, port_input, port_output,
                    current_data, joystick, config_file, ticks, rampStart >>

(***************************************************************************)
(* Specification of the whole program                                      *)
(***************************************************************************)
Next ==
    \/ \E p \in PointerOffsets : MousePress(p[1], p[2])
    \/ \E p \in PointerOffsets : MouseMove(p[1], p[2])
    \/ MouseRelease
    \/ \E io \in { "ok", "raise" } : Tick(io)
    \/ \E io \in { "ok", "raise" } : PressBrake(io)
    \/ \E io \in { "ok", "raise" } : KeyPressSpace(io)
    \/ \E io \in { "ok", "raise" } : ReleaseBrake(io)
    \/ \E io \in { "ok", "raise" } : KeyReleaseSpace(io)
    \/ \E opened \in BOOLEAN : ConnectSerial(opened)
    \/ \E mode \in { "COM", "UDP" } : ToggleMode(mode)
    \/ StartUdpListener
    \/ JoinReturn
    \/ \E t \in PortInputTexts : EditPortInput(t)
    \/ \E t \in PortOutputTexts : EditPortOutput(t)
    \/ \E bound \in BOOLEAN : ListenerBind(bound)
    \/ ListenerTest
    \/ \E kind \in { "rx", "other", "empty", "undecodable" } : ListenerDatagram(kind)
    \/ ListenerOSError
    \/ ListenerReturn

Spec == Init /\ [][Next]_vars

\* The whole program with the steps the scheduler guarantees: a listener
\* thread that can run does run (bind, the loop test, the return from the
\* callback), and join() returns once the thread has ended.  Nothing
\* guarantees that a datagram arrives, nor that a recvfrom which is already
\* blocked raises when stop() closes the socket: where close() does not abort
\* a pending read, the call stays blocked until the next datagram.
SpecFair ==
    /\ Spec
    /\ WF_vars(\E bound \in BOOLEAN : ListenerBind(bound))
    /\ WF_vars(ListenerTest)
    /\ WF_vars(ListenerReturn)
    /\ WF_vars(JoinReturn)

(***************************************************************************)
(* The ramp alone: update_speeds from any start toward any target, the     *)
(* ticks counted                                                           *)
(***************************************************************************)
InitRamp ==
    /\ InitController
    /\ serial_port = "None"
    /\ reader_thread = NoReader
    /\ config_file = "absent"
    /\ \E s \in RampValues, t \in RampValues :
          /\ joystick = [active |-> TRUE, pos |-> << 0, 0 >>, knob_pos |-> << 0, 0 >>,
                         target_speedL |-> t, target_speedR |-> -t,
                         current_speedL |-> s, current_speedR |-> -s]
          /\ rampStart = << s, -s >>

RampTick(io) ==
    /\ ticks < MaxTicks
    /\ TickBody(io)
    /\ ticks' = ticks + 1

NextRamp == \E io \in { "ok", "raise" } : RampTick(io)

SpecRamp == InitRamp /\ [][NextRamp]_vars

(***************************************************************************)
(* The release of the pointer: ticks counts the ramp ticks since the       *)
(* latest mouseReleaseEvent while the pointer is not held, up to           *)
(* StopTicks.  The mode is switched to UDP, and a write fails, only while   *)
(* the pointer is held: once it is released the transport stays as it is   *)
(* and every write succeeds.  No datagram arrives.                         *)
(***************************************************************************)
\* Ticks a ramp needs from full speed to 0
StopTicks == (MaxSpeed + RampStep - 1) \div RampStep

ReleaseCounted ==
    /\ MouseReleaseBody
    /\ ticks' = 0

TickCounted(io) ==
    /\ io = "raise" => joystick.active
    /\ TickBody(io)
    /\ ticks' = IF joystick.active THEN ticks ELSE Min2(ticks + 1, StopTicks)

NextRelease ==
    \/ \E p \in ReleaseOffsets : MousePress(p[1], p[2])
    \/ \E p \in ReleaseOffsets : MouseMove(p[1], p[2])
    \/ ReleaseCounted
    \/ \E io \in { "ok", "raise" } : TickCounted(io)
    \/ joystick.active /\ ToggleMode("UDP")
    \/ \E bound \in BOOLEAN : ListenerBind(bound)
    \/ ListenerTest
    \/ ListenerOSError
    \/ ListenerReturn

SpecRelease == Init /\ [][NextRelease]_vars

(***************************************************************************)
(* The joystick alone: pointer events anywhere on the widget, and ticks    *)
(***************************************************************************)
NextJoy ==
    \/ \E p \in JoyOffsets : MousePress(p[1], p[2])
    \/ \E p \in JoyOffsets : MouseMove(p[1], p[2])
    \/ MouseRelease
    \/ \E io \in { "ok", "raise" } : Tick(io)

SpecJoy == Init /\ [][NextJoy]_vars

(***************************************************************************)
(* The program with a serial reader running: the state connect_serial      *)
(* leaves when the port has opened, save_settings has returned and the     *)
(* SerialReader has been created and started                               *)
(***************************************************************************)
InitReader ==
    /\ InitController
    /\ InitJoystick
    /\ serial_port = "open"
    /\ reader_thread = NewReader
    /\ config_file = "written"

\* SerialReader.run at the loop test: return when stopped, read when the
\* port is open, spin otherwise
ReaderTest ==
    /\ alive
    /\ reader_thread.pc = "test"
    /\ reader_thread' = [reader_thread EXCEPT !.pc =
            IF ~reader_thread.running THEN "done"
            ELSE IF reader_thread.port_open THEN "read" ELSE "test"]
    /\ terminal_output' = "none"
    /\ NoSend
    /\ NoCallback
    /\ UNCHANGED << mainPc, use_udp, serial_port, udp_listener, port_input, port_output,
                    current_data, joystick, config_file, ticks, rampStart >>

\* readline() returns or raises: "rx" a line starting with RX:, "other" any
\* other line, "empty" nothing within the timeout, "error" an exception (bytes
\* that are not UTF-8, an I/O error, the port closed under the read).  A line
\* is emitted through data_received, whose slot is filter_incoming; an
\* exception is emitted as text and ends the loop.  A closed port yields no
\* data.
ReaderRead(kind) ==
    /\ alive
    /\ reader_thread.pc = "read"
    /\ reader_thread.port_open \/ kind \in { "empty", "error" }
    /\ reader_thread' = [reader_thread EXCEPT
            !.pc = "test",
            !.running = IF kind = "error" THEN FALSE ELSE @]
    /\ terminal_output' = FilterIncoming(kind)
    /\ callback' = IF kind = "empty" THEN "none" ELSE "serial"
    /\ NoSend
    /\ UNCHANGED << mainPc, use_udp, serial_port, udp_listener, port_input, port_output,
                    current_data, joystick, config_file, ticks, rampStart >>

NextReader ==
    \/ Next
    \/ ReaderTest
    \/ \E kind \in { "rx", "other", "empty", "error" } : ReaderRead(kind)

SpecReader == InitReader /\ [][NextReader]_vars

(***************************************************************************)
(* Properties                                                              *)
(***************************************************************************)
\* A transport would take a packet now: UDP mode with a TX port that parses,
\* or COM mode with the port open
TransportUsable == IF use_udp THEN IsIntText(port_input) ELSE serial_port = "open"

C2_AtMostOneTransport ==
    ~(alive /\ serial_port = "open" /\ udp_listener.pc = "recv" /\ udp_listener.running)

C4_ConnectedAfterOpen ==
    openOutcome = "opened" =>
        /\ config_file = "written"
        /\ reader_thread # NoReader
        /\ uncaught = "none"

\* C5: when the open fails the error is logged, the port stays None, no
\* reader is started, nothing is raised; and the port changes only in a step
\* of connect_serial (no retry outside the user's connect action).
C5_ConnectFailure ==
    /\ [](openOutcome = "refused" =>
            /\ terminal_output = "err_connect"
            /\ serial_port = "None"
            /\ reader_thread = NoReader
            /\ uncaught = "none"
            /\ alive)
    /\ [][serial_port' # serial_port =>
            (openOutcome' = "opened" \/ terminal_output' = "disconnected")]_vars

\* C5 witness: an open was refused in COM mode and the refusal is in the log.
C5_Witness ==
    openOutcome = "refused" /\ terminal_output = "err_connect" /\ ~use_udp

C7_SpeedsInRange ==
    \A v \in { joystick.target_speedL, joystick.target_speedR,
                joystick.current_speedL, joystick.current_speedR } :
        -MaxSpeed <= v /\ v <= MaxSpeed

\* C7 witness: the pointer was dragged outside the disc (the mix gives 360
\* for the right wheel) and the ramp has reached the clamped target.
C7_Witness ==
    /\ joystick.target_speedL = 0
    /\ joystick.target_speedR = 255
    /\ joystick.current_speedR = 255
    /\ joystick.active

\* ceil(a / b) for a >= 0
CeilDiv(a, b) == (a + b - 1) \div b

\* Where a ramp from `start` toward `target` stands after n ticks of 15
RampAt(start, target, n) ==
    IF start <= target THEN Min2(start + RampStep * n, target)
    ELSE Max2(start - RampStep * n, target)

\* C8: with the target held, the current speed after n ticks is the start
\* moved n steps of 15 toward the target and cut at it, and it equals the
\* target exactly from tick ceil(|target - start| / 15) on.
C8_RampExact ==
    /\ joystick.current_speedL = RampAt(rampStart[1], joystick.target_speedL, ticks)
    /\ joystick.current_speedR = RampAt(rampStart[2], joystick.target_speedR, ticks)
    /\ (joystick.current_speedL = joystick.target_speedL)
          <=> (ticks >= CeilDiv(Abs(joystick.target_speedL - rampStart[1]), RampStep))
    /\ (joystick.current_speedR = joystick.target_speedR)
          <=> (ticks >= CeilDiv(Abs(joystick.target_speedR - rampStart[2]), RampStep))
    /\ Min2(rampStart[1], joystick.target_speedL) <= joystick.current_speedL
    /\ joystick.current_speedL <= Max2(rampStart[1], joystick.target_speedL)

\* C8 witness: from 0 toward 255 the ramp stands at 255 after 17 ticks.
C8_Witness ==
    /\ rampStart[1] = 0
    /\ joystick.target_speedL = 255
    /\ ticks = 17
    /\ joystick.current_speedL = 255

C10_RepeatedCallSendsNothing ==
    [][(last_packet # Unset /\ current_data' = current_data /\ sendOutcome' # "none") =>
        (sendOutcome' = "dup" /\ lastTx' = lastTx)]_vars

\* C10 witness: a packet was transmitted and a later call with the same
\* state was suppressed.
C10_Witness ==
    /\ sendOutcome = "dup"
    /\ lastTx # Unset
    /\ lastTx = last_packet
    /\ TransportUsable

C12_OneListenerAlive ==
    /\ [][(ListenerAlive(udp_listener) /\ udp_listener' # udp_listener) =>
            udp_listener' \notin { NewListener, NoListener }]_vars
    /\ [][(mainPc = "join" /\ mainPc' = "idle") => udp_listener.pc = "done"]_vars

\* C12 witness: a restart has stopped a listener that was alive, the GUI
\* thread waits in join() and the listener's run() has returned.
C12_Witness ==
    /\ mainPc = "join"
    /\ udp_listener.pc = "done"
    /\ ~udp_listener.running
    /\ udp_listener.sock = "closed"

\* C13: once stop() has been called on a listener, its run() eventually
\* returns (or the process has ended), wherever run() was.
C13_StopForcesReturn ==
    (alive /\ udp_listener # NoListener /\ ~udp_listener.running)
        ~> (~alive \/ udp_listener.pc = "done" \/ udp_listener.running)

\* C14: every line passed to the receive callback is forwarded to the log:
\* a step that invokes the callback appends a line to terminal_output.
C14_EveryLineForwarded ==
    [][callback' # "none" => terminal_output' # "none"]_vars

C16_CallbackNotConcurrentWithSend ==
    [][~(/\ udp_listener.pc = "callback" /\ udp_listener'.pc = "callback"
         /\ callback = "udp" /\ terminal_output = "rx"
         /\ sendOutcome' \in { "sent", "failed" })]_vars

\* round(a / b) for b > 0: the nearest integer, a tie to the even one
RoundDiv(a, b) ==
    LET q == a \div b
        r == a % b
    IN IF 2 * r < b THEN q
       ELSE IF 2 * r > b THEN q + 1
       ELSE IF q % 2 = 0 THEN q ELSE q + 1

\* C17: while the pointer is held at an offset within the disc, the targets
\* are the differential mix rounded to the nearest integer and clamped.
C17_TargetsAreRoundedMix ==
    LET dx == joystick.pos[1]
        dy == joystick.pos[2]
    IN (joystick.active /\ dx * dx + dy * dy <= Radius * Radius) =>
          /\ joystick.target_speedL = Clamp(RoundDiv(((-dy) - dx) * MaxSpeed, Radius))
          /\ joystick.target_speedR = Clamp(RoundDiv(((-dy) + dx) * MaxSpeed, Radius))

\* C18 as stated: the drag to (80, -80) normalizes to (1, 1), i.e. the knob
\* stands at (80, -80) from the centre, and the targets are 0 and 255.
C18_CornerNormalizesToOne ==
    (joystick.active /\ joystick.pos = << 80, -80 >>) =>
        /\ joystick.knob_pos = << Radius, -Radius >>
        /\ joystick.target_speedL = 0
        /\ joystick.target_speedR = MaxSpeed

\* C18 amended: (80, -80) lies outside the disc, the knob is scaled back onto
\* the rim, to (56.57, -56.57), which normalizes to (0.707, 0.707); the
\* targets are 0 and 255 (the mix gives 360 for the right wheel, clamped).
C18_CornerOnRim ==
    (joystick.active /\ joystick.pos = << 80, -80 >>) =>
        /\ joystick.knob_pos = << 56, -56 >>
        /\ joystick.target_speedL = 0
        /\ joystick.target_speedR = MaxSpeed

\* C18 witness: the pointer is held at (80, -80) and the targets are set.
C18_Witness ==
    /\ joystick.active
    /\ joystick.pos = << 80, -80 >>
    /\ joystick.knob_pos = << 56, -56 >>
    /\ joystick.target_speedL = 0
    /\ joystick.target_speedR = MaxSpeed

\* C19: when a send_data call returns with a usable transport and without a
\* write error (it has transmitted, or returned at the comparison), the
\* packet last put on the wire is the encoding of the current state.
C19_WireCarriesCurrentState ==
    [][(sendOutcome' \in { "sent", "dup" } /\ TransportUsable') =>
        lastTx' = Encode(current_data')]_vars

\* C20: once the pointer is released and not pressed again, both targets
\* are 0, after StopTicks (17) ticks both current speeds are 0 and stay 0,
\* and with a usable transport the packet last put on the wire, if there
\* is one, then carries the speeds 0, 0.
C20_ReleaseStops ==
    ~joystick.active =>
        /\ joystick.target_speedL = 0 /\ joystick.target_speedR = 0
        /\ ticks >= StopTicks =>
              /\ joystick.current_speedL = 0 /\ joystick.current_speedR = 0
              /\ TransportUsable =>
                    (lastTx = Unset \/ (lastTx[1] = 0 /\ lastTx[2] = 0))

====
